---- MODULE Spec2Model ----
(***************************************************************************)
(* The document-extraction request handler of react-ollama-project_v2.     *)
(* Two variants of the handler are in the sources: the handler of          *)
(* src/unnamed/part_002 (registry of file processors, defaulting           *)
(* reconciliation) and the handler of src/pages/api/extract.ts (pdf/docx   *)
(* only, missing fields rejected).  One request is followed from its       *)
(* arrival to the end of the handler's finally block.                      *)
(*                                                                         *)
(* Strings the code takes apart (heading lists, property names) are        *)
(* sequences of one-character strings; strings it only compares (media     *)
(* types, messages) are TLA+ strings.                                      *)
(***************************************************************************)
EXTENDS Integers, Sequences, FiniteSets, TLC

\* ------------------------------------------------------------------ bounds
MaxHeadingLen == 3
MaxProps == 2
MaxFileParts == 2

\* the submits of the form that are followed
MaxSubmits == 2

\* ------------------------------------------------------- program constants
Variants == {"part_002", "extract_ts"}

\* maxFileSize of the formidable options, in megabytes
maxFileSize(v) == IF v = "part_002" THEN 25 ELSE 10

\* the ceiling of the form's handleFileChange, in megabytes
formMaxFileSize == 25

\* handleFileChange keeps the chosen file unless file.size > 25 * 1024 * 1024
formAccepts(size) == ~(size > formMaxFileSize)

\* sizes (MB) of the uploads that are tried: under both ceilings, between
\* them, above both
FileSizes == {1, 20, 30}

fileProcessors ==
  [pdf   |-> {"application/pdf"},
   word  |-> {"application/vnd.openxmlformats-officedocument.wordprocessingml.document",
              "application/msword"},
   image |-> {"image/jpeg", "image/png", "image/tiff"},
   excel |-> {"application/vnd.ms-excel",
              "application/vnd.openxmlformats-officedocument.spreadsheetml.sheet"},
   text  |-> {"text/plain", "text/markdown", "text/csv", "application/json", "text/rtf"}]

\* the keys of SUPPORTED_FILE_TYPES in the upload form
SUPPORTED_FILE_TYPES ==
  {"application/pdf",
   "application/vnd.openxmlformats-officedocument.wordprocessingml.document",
   "text/plain", "text/csv", "application/vnd.ms-excel",
   "application/vnd.openxmlformats-officedocument.spreadsheetml.sheet",
   "image/jpeg", "image/png", "image/tiff", "application/msword",
   "application/rtf", "text/markdown", "application/json"}

\* the media types of the transport's MIME universe that are tried: the
\* ones above, two types no variant handles, and "" for a part that
\* declares no type
MediaTypes ==
  SUPPORTED_FILE_TYPES \cup UNION {fileProcessors[p] : p \in DOMAIN fileProcessors}
    \cup {"application/zip", "application/vnd.oasis.opendocument.text", ""}

\* String.prototype.includes on a media type, for the two needles the
\* filter of extract.ts uses
includes(m, needle) ==
  CASE needle = "pdf" -> m \in {"application/pdf"}
    [] needle = "document" ->
         m \in {"application/vnd.openxmlformats-officedocument.wordprocessingml.document",
                "application/vnd.openxmlformats-officedocument.spreadsheetml.sheet",
                "application/vnd.oasis.opendocument.text"}
    [] OTHER -> FALSE

\* the processors of part_002 whose mimeType list includes m
Processors(m) == {p \in DOMAIN fileProcessors : m \in fileProcessors[p]}

\* the filter option handed to formidable
filter(v, part) ==
  /\ part.name = "file"
  /\ IF v = "part_002"
       THEN Processors(part.mimetype) # {}
       ELSE includes(part.mimetype, "pdf") \/ includes(part.mimetype, "document")

\* the extractor the router picks for an uploaded file: the processor found
\* by processFile, or the branch taken by parseFile; "none" when it throws
\* Unsupported file type
Extractor(v, m) ==
  IF v = "part_002"
    THEN IF Processors(m) = {} THEN "none" ELSE CHOOSE p \in Processors(m) : TRUE
    ELSE CASE m = "application/pdf" -> "pdf"
           [] m = "application/vnd.openxmlformats-officedocument.wordprocessingml.document" -> "word"
           [] OTHER -> "none"

\* ----------------------------------------------------------- text helpers
HeadingChars == {"a", "1", ",", " "}

StringsUpTo(n) == UNION {[1..k -> HeadingChars] : k \in 0..n}

\* String.prototype.split(',')
RECURSIVE split(_)
split(s) ==
  IF \A i \in 1..Len(s) : s[i] # ","
    THEN <<s>>
    ELSE LET i == CHOOSE j \in 1..Len(s) : s[j] = "," /\ \A k \in 1..(j-1) : s[k] # ","
         IN  <<SubSeq(s, 1, i-1)>> \o split(SubSeq(s, i+1, Len(s)))

\* String.prototype.trim
RECURSIVE trim(_)
trim(s) ==
  IF s = <<>> THEN s
  ELSE IF Head(s) = " " THEN trim(Tail(s))
  ELSE IF s[Len(s)] = " " THEN trim(SubSeq(s, 1, Len(s)-1))
  ELSE s

\* Array.prototype.map(heading => heading.trim())
RECURSIVE mapTrim(_)
mapTrim(l) == IF l = <<>> THEN <<>> ELSE <<trim(Head(l))>> \o mapTrim(Tail(l))

\* ------------------------------------------- property order of JS objects
\* An own property key that is a canonical array index is enumerated before
\* the other keys, in ascending numeric order; the others follow in
\* insertion order.
DigitVal(c) == IF c = "1" THEN 1 ELSE 0

IsArrayIndex(k) ==
  /\ Len(k) > 0
  /\ \A i \in 1..Len(k) : k[i] \in {"0", "1"}
  /\ (k[1] = "0" => Len(k) = 1)

RECURSIVE NumVal(_)
NumVal(k) == IF k = <<>> THEN 0 ELSE 10 * NumVal(SubSeq(k, 1, Len(k)-1)) + DigitVal(k[Len(k)])

Range(s) == {s[i] : i \in 1..Len(s)}

RECURSIVE SortIndexKeys(_)
SortIndexKeys(ks) ==
  IF ks = {} THEN <<>>
  ELSE LET m == CHOOSE k \in ks : \A o \in ks : NumVal(k) <= NumVal(o)
       IN  <<m>> \o SortIndexKeys(ks \ {m})

RECURSIVE NonIndexKeys(_)
NonIndexKeys(ins) ==
  IF ins = <<>> THEN <<>>
  ELSE (IF IsArrayIndex(Head(ins)) THEN <<>> ELSE <<Head(ins)>>) \o NonIndexKeys(Tail(ins))

\* insertion sequence without the repeated keys (assigning to an existing
\* key keeps its place)
RECURSIVE Dedupe(_, _)
Dedupe(ins, seen) ==
  IF ins = <<>> THEN <<>>
  ELSE IF Head(ins) \in seen THEN Dedupe(Tail(ins), seen)
  ELSE <<Head(ins)>> \o Dedupe(Tail(ins), seen \cup {Head(ins)})

\* the order in which Object.entries / Object.keys enumerate the keys that
\* were inserted in the order ins
OwnKeys(ins) ==
  LET d == Dedupe(ins, {})
  IN  SortIndexKeys({k \in Range(d) : IsArrayIndex(k)}) \o NonIndexKeys(d)

\* --------------------------------------------------------- JSON values
\* A JSON value is its kind and an instance number: instance 0 is the empty
\* one of its kind ("", 0, false, [], {}), instance 1 some other one.
Val(k, n) == [k |-> k, n |-> n]

Null == Val("null", 0)

\* the typeof operator
typeof(v) == IF v.k \in {"string", "number", "boolean"} THEN v.k ELSE "object"

\* Array.isArray
isArray(v) == v.k = "array"

\* the value stored for a property the reply lacks (part_002)
DefaultValue(type) ==
  IF type = "array" THEN Val("array", 0)
  ELSE IF type = "object" THEN Val("object", 0)
  ELSE IF type = "number" THEN Val("number", 0)
  ELSE IF type = "boolean" THEN Val("boolean", 0)
  ELSE Val("string", 0)

\* A parsed JSON document: its kind, and for an object (or an array that was
\* given properties) the mapping from property name to value.
Doc(kind, f) == [kind |-> kind, f |-> f]

EmptyObject == Doc("object", <<>>)

\* JSON.parse(JSON.stringify(data)): what the client receives as data.  An
\* array keeps its index-keyed entries only, an object keeps everything.
stringify(doc) ==
  IF doc.kind = "array"
    THEN Doc("array", [k \in {x \in DOMAIN doc.f : IsArrayIndex(x)} |-> doc.f[k]])
    ELSE doc

\* ------------------------------------------------------------- schemas
FieldTypes == {"string", "number", "boolean", "array", "object"}

\* A field descriptor: nul for a JSON null in its place, type "absent" when
\* it has no type, description "" when it has none.
Desc(type, description) == [nul |-> FALSE, type |-> type, description |-> description]

NullDesc == [nul |-> TRUE, type |-> "absent", description |-> ""]

Entry(key, d) == [key |-> key, d |-> d]

\* A schema value: top is the kind of the JSON value itself, type its
\* "type" member ("absent" when it has none), pk the kind of its
\* "properties" member ("absent" when it has none), props the entries of
\* properties in insertion order, required its "required" member.
SchemaVal(top, type, pk, props, required) ==
  [top |-> top, type |-> type, pk |-> pk, props |-> props, required |-> required]

NoSchema == SchemaVal("undefined", "absent", "absent", <<>>, <<>>)

RECURSIVE KeysOf(_)
KeysOf(props) == IF props = <<>> THEN <<>> ELSE <<Head(props).key>> \o KeysOf(Tail(props))

\* the descriptor last assigned to key
DescOf(props, key) ==
  LET i == CHOOSE j \in 1..Len(props) :
             props[j].key = key /\ \A k \in (j+1)..Len(props) : props[k].key # key
  IN  props[i].d

RECURSIVE EntriesFor(_, _)
EntriesFor(keys, props) ==
  IF keys = <<>> THEN <<>>
  ELSE <<Entry(Head(keys), DescOf(props, Head(keys)))>> \o EntriesFor(Tail(keys), props)

\* Object.entries(schema.properties), for properties that can be enumerated
entries(schema) == EntriesFor(OwnKeys(KeysOf(schema.props)), schema.props)

\* whether Object.entries(schema.properties) throws a TypeError
EntriesThrows(schema) == schema.pk \in {"absent", "null"}

\* headingList.reduce((acc, heading) => { acc[heading] = {type:'string'} }):
\* the properties in insertion order, a repeated heading keeping its place
RECURSIVE StringEntries(_)
StringEntries(l) ==
  IF l = <<>> THEN <<>> ELSE <<Entry(Head(l), Desc("string", ""))>> \o StringEntries(Tail(l))

reduceHeadings(l) == StringEntries(Dedupe(l, {}))

\* the schema built in headings mode
HeadingSchema(headings) ==
  LET headingList == mapTrim(split(headings))
  IN  SchemaVal("object", "object", "mapping", reduceHeadings(headingList), headingList)

\* ------------------------------------------------------------- errors
\* An error message: wrap is the prefix added by an enclosing catch, text
\* the fixed part of the message, field the property names it quotes, mime
\* the media type it quotes.
Error(wrap, text, field, mime) ==
  [wrap |-> wrap, text |-> text, field |-> field, mime |-> mime, at |-> <<>>]

Msg(text) == Error("", text, <<>>, "")

NoError == Msg("")

\* the SyntaxError of JSON.parse: its message, and in `at` what the message
\* says about the place of the error: nothing, <<position>>, or
\* <<position, line>>
SyntaxError(text, at) == [Msg(text) EXCEPT !.at = at]

Wrap(prefix, e) == [e EXCEPT !.wrap = prefix]

Ok == [ok |-> TRUE, err |-> NoError]

Throw(e) == [ok |-> FALSE, err |-> e]

\* ----------------------------------------------------- validateSchema
RECURSIVE validateProperties(_)
validateProperties(es) ==
  IF es = <<>> THEN Ok
  ELSE LET key == Head(es).key
           value == Head(es).d
       IN  IF value.nul
             THEN Throw(Msg("Cannot read properties of null"))
           ELSE IF value.type \in {"absent", ""}
             THEN Throw(Error("", "Property must specify a type", <<key>>, ""))
           ELSE IF value.type \notin {"string", "number", "boolean", "array", "object"}
             THEN Throw(Error("", "Property has invalid type", <<key>>, ""))
           ELSE validateProperties(Tail(es))

validateSchema(v, schema) ==
  IF v = "part_002"
    THEN IF schema.top \in {"null", "number", "string", "boolean"}
           THEN Throw(Msg("Invalid schema: must be an object"))
         ELSE IF schema.type # "object"
           THEN Throw(Msg("Schema type must be \"object\""))
         ELSE IF schema.pk \in {"absent", "null", "string", "number"}
           THEN Throw(Msg("Schema must contain \"properties\" object"))
         ELSE validateProperties(entries(schema))
    ELSE IF schema.top \in {"null", "number", "string", "boolean"}
           THEN Throw(Msg("Schema must be a valid JSON object"))
         ELSE IF schema.type = "absent" \/ schema.pk = "absent"
           THEN Throw(Msg("Schema must contain \"type\" and \"properties\" fields"))
         ELSE IF schema.type # "object"
           THEN Throw(Msg("Schema type must be \"object\""))
         ELSE IF schema.pk \in {"string", "number"}
           THEN Throw(Msg("Properties must be an object"))
         ELSE Ok

\* generatePrompt throws a TypeError when Object.entries does, or when a
\* property's value is null (value.type)
generatePromptThrows(schema) ==
  \/ EntriesThrows(schema)
  \/ \E i \in 1..Len(schema.props) : schema.props[i].d.nul

\* the text `Extract the most relevant ${type} value`, which extract.ts
\* continues with " from the document."
Generic(type, fromDocument) == [generic |-> TRUE, type |-> type, tail |-> fromDocument]

\* a description written in the schema
Given(description) == [generic |-> FALSE, type |-> description, tail |-> FALSE]

\* the line `- ${key} (${type}): ${description}`
Line(key, type, description) == [key |-> key, type |-> type, description |-> description]

\* Object.entries(schema.properties).map(...): one line per entry
RECURSIVE extractionInstructions(_, _)
extractionInstructions(v, es) ==
  IF es = <<>> THEN <<>>
  ELSE LET key == Head(es).key
           value == Head(es).d
           l == IF v = "part_002"
                  THEN Line(key, value.type,
                            IF value.description # "" THEN Given(value.description)
                                                      ELSE Generic(value.type, FALSE))
                  ELSE LET type == IF value.type \in {"absent", ""} THEN "string"
                                                                   ELSE value.type
                       IN  Line(key, type, Generic(type, TRUE))
       IN  <<l>> \o extractionInstructions(v, Tail(es))

\* the prompt: its instruction lines, the schema printed for reference and
\* the document text; every other part of the template is fixed
generatePrompt(v, schema, documentText) ==
  [instructions |-> extractionInstructions(v, entries(schema)),
   schema |-> schema,
   text |-> documentText]

NoPrompt == [instructions |-> <<>>, schema |-> NoSchema, text |-> ""]

\* --------------------------------------------- reconciliation of the reply
\* parsedContent[key] = value
Assign(doc, key, value) ==
  Doc(doc.kind, [k \in DOMAIN doc.f \cup {key} |-> IF k = key THEN value ELSE doc.f[k]])

\* the callback of Object.entries(schema.properties).forEach, applied to the
\* entries es in turn; the result is the content after the loop, or the
\* error the loop threw
RECURSIVE reconcile_masking(_, _, _)
reconcile_masking(v, es, parsedContent) ==
  IF es = <<>> THEN [ok |-> TRUE, err |-> NoError, content |-> parsedContent]
  ELSE
    LET key == Head(es).key
        value == Head(es).d
        fail(e) == [ok |-> FALSE, err |-> e, content |-> parsedContent]
    IN  IF parsedContent.kind \notin {"object", "array"}
          THEN fail(Msg("Cannot use 'in' operator"))
        ELSE IF key \notin DOMAIN parsedContent.f /\ v = "extract_ts"
          THEN fail(Error("", "Missing required field", <<key>>, ""))
        ELSE IF value.nul
          THEN fail(Msg("Cannot read properties of null"))
        ELSE
          LET bad == \/ key \notin DOMAIN parsedContent.f
                     \/ (value.type = "array" /\ ~isArray(parsedContent.f[key]))
                     \/ (value.type # "array" /\ typeof(parsedContent.f[key]) # value.type)
          IN  reconcile_masking(v, Tail(es),
                IF bad THEN Assign(parsedContent, key, DefaultValue(value.type))
                       ELSE parsedContent)

RECURSIVE reconcile_overwriting(_, _, _)
reconcile_overwriting(v, es, parsedContent) ==
  IF es = <<>> THEN [ok |-> TRUE, err |-> NoError, content |-> parsedContent]
  ELSE
    LET key == Head(es).key
        value == Head(es).d
        fail(e) == [ok |-> FALSE, err |-> e, content |-> parsedContent]
    IN  IF parsedContent.kind \notin {"object", "array"}
          THEN fail(Msg("Cannot use 'in' operator"))
        ELSE IF key \notin DOMAIN parsedContent.f /\ v = "extract_ts"
          THEN fail(Error("", "Missing required field", <<key>>, ""))
        ELSE IF value.nul
          THEN fail(Msg("Cannot read properties of null"))
        ELSE
          LET filled == Assign(parsedContent, key, DefaultValue(value.type))
              actualValue == filled.f[key]
          IN  IF value.type = "array" /\ ~isArray(actualValue)
                THEN [ok |-> FALSE, content |-> filled,
                      err |-> Error("", "Field should be an array", <<key>>, "")]
              ELSE IF value.type # "array" /\ typeof(actualValue) # value.type
                THEN [ok |-> FALSE, content |-> filled,
                      err |-> Error("", "Field should be of type", <<key>>, "")]
              ELSE reconcile_overwriting(v, Tail(es), filled)

RECURSIVE reconcile(_, _, _)
reconcile(v, es, parsedContent) ==
  IF es = <<>> THEN [ok |-> TRUE, err |-> NoError, content |-> parsedContent]
  ELSE
    LET key == Head(es).key
        value == Head(es).d
        fail(e) == [ok |-> FALSE, err |-> e, content |-> parsedContent]
    IN  IF parsedContent.kind \notin {"object", "array"}
          THEN fail(Msg("Cannot use 'in' operator"))
        ELSE IF key \notin DOMAIN parsedContent.f /\ v = "extract_ts"
          THEN fail(Error("", "Missing required field", <<key>>, ""))
        ELSE IF value.nul
          THEN fail(Msg("Cannot read properties of null"))
        ELSE
          LET filled == IF key \in DOMAIN parsedContent.f
                          THEN parsedContent
                          ELSE Assign(parsedContent, key, DefaultValue(value.type))
              actualValue == filled.f[key]
          IN  IF value.type = "array" /\ ~isArray(actualValue)
                THEN [ok |-> FALSE, content |-> filled,
                      err |-> Error("", "Field should be an array", <<key>>, "")]
              ELSE IF value.type # "array" /\ typeof(actualValue) # value.type
                THEN [ok |-> FALSE, content |-> filled,
                      err |-> Error("", "Field should be of type", <<key>>, "")]
              ELSE reconcile(v, Tail(es), filled)

processReply_lenient(v, schema, reply) ==
  LET parsed == IF reply.content \in {"absent", "notjson"} THEN EmptyObject ELSE reply.value
  IN  IF EntriesThrows(schema)
        THEN [ok |-> FALSE, err |-> Msg("Cannot convert undefined or null to object"),
              content |-> parsed]
        ELSE reconcile(v, entries(schema), parsed)

\* JSON.parse(response.message?.content || '{}') followed by the loop
processReply(v, schema, reply) ==
  IF reply.content = "notjson"
    THEN [ok |-> FALSE, err |-> Msg("Unexpected token"), content |-> EmptyObject]
  ELSE LET parsed == IF reply.content = "absent" THEN EmptyObject ELSE reply.value
       IN  IF EntriesThrows(schema)
             THEN [ok |-> FALSE, err |-> Msg("Cannot convert undefined or null to object"),
                   content |-> parsed]
             ELSE reconcile(v, entries(schema), parsed)

\* ------------------------------------------------------------ the inputs
Part(name, mimetype, size) == [name |-> name, mimetype |-> mimetype, size |-> size]

\* the parts combined with each other when a request carries several
BasicParts ==
  {Part("file", "text/plain", 1), Part("file", "application/pdf", 1),
   Part("file", "application/zip", 1), Part("file", "application/pdf", 30)}

Request(method, parts, text) == [method |-> method, parts |-> parts, text |-> text]

\* the file parts of the requests that are tried: none, one part of any
\* media type and size, a part under another field name, or several parts
PartLists ==
  {<<>>, <<Part("doc", "application/pdf", 1)>>}
    \cup {<<Part("file", m, z)>> : m \in MediaTypes, z \in FileSizes}
    \cup UNION {[1..n -> BasicParts] : n \in 2..MaxFileParts}

Requests ==
  {Request(m, ps, t) : m \in {"POST", "GET"}, ps \in PartLists, t \in {"", "T"}}

Fields(mode, headings, jsonStructure) ==
  [mode |-> mode, headings |-> headings, jsonStructure |-> jsonStructure]

\* jsonStructure as submitted: absent or empty, not JSON, or the text of a
\* JSON value
JsonText(syntax, value) ==
  [syntax |-> syntax, value |-> value, fault |-> "", offset |-> 0, newlines |-> 0]

\* a jsonStructure that is not JSON: the input ends too early ("end") or
\* holds a wrong character ("token") at `offset`, with `newlines` line
\* breaks before that offset
InvalidJson(fault, offset, newlines) ==
  [JsonText("invalid", NoSchema) EXCEPT !.fault = fault, !.offset = offset,
                                        !.newlines = newlines]

NoJson == JsonText("empty", NoSchema)

NoFields == Fields("", <<>>, NoJson)

\* the property names written in the JSON structures, in the order written
JsonKeyOrder == << <<"a">>, <<"1">>, <<"b">> >>

RECURSIVE PropsFor(_, _)
PropsFor(S, d) ==
  IF S = {} THEN <<>>
  ELSE LET i == CHOOSE j \in S : \A k \in S : j <= k
       IN  <<Entry(JsonKeyOrder[i], d[i])>> \o PropsFor(S \ {i}, d)

\* the descriptors tried for a structure of n properties
Descriptors(n) ==
  {Desc(t, "") : t \in FieldTypes \cup {"integer"}}
    \cup (IF n <= 1 THEN {Desc("absent", ""), Desc("string", "D"), NullDesc} ELSE {})

PropLists ==
  UNION {{PropsFor(S, d) : d \in [S -> Descriptors(Cardinality(S))]} :
           S \in {T \in SUBSET (1..Len(JsonKeyOrder)) : Cardinality(T) <= MaxProps}}

OneString == <<Entry(<<"a">>, Desc("string", ""))>>

CandidateSchemas ==
  {SchemaVal(t, "absent", "absent", <<>>, <<>>) : t \in {"null", "number", "string", "array"}}
    \cup {SchemaVal("object", t, "mapping", OneString, <<>>) : t \in {"absent", "array"}}
    \cup {SchemaVal("object", "object", pk, <<>>, <<>>) : pk \in {"absent", "null", "string", "number"}}
    \cup {SchemaVal("object", "object", "array", <<Entry(<<"0">>, Desc("string", ""))>>, <<>>)}
    \cup {SchemaVal("object", "object", "mapping", ps, <<>>) : ps \in PropLists}

\* the malformed structures tried: '{"type": "object"' on one line and
\* spread over three lines, and a structure with a stray character on its
\* first and on its third line
InvalidJsonTexts ==
  {InvalidJson("end", 17, 0), InvalidJson("end", 19, 2),
   InvalidJson("token", 9, 0), InvalidJson("token", 12, 2)}

\* error.message of the SyntaxError JSON.parse throws for a malformed text.
\* The wording belongs to the JavaScript engine: input that ends too early
\* is reported without a position; a wrong character is reported with
\* "at position N", with "at position N (line L column C)", or with an
\* excerpt of the text and no position, depending on the engine's version.
parseErrors(j) ==
  IF j.fault = "end"
    THEN {SyntaxError("Unexpected end of JSON input", <<>>)}
    ELSE {SyntaxError("Unexpected token", at) :
            at \in {<<>>, <<j.offset>>, <<j.offset, j.newlines + 1>>}}

JsonStructures ==
  {NoJson} \cup InvalidJsonTexts \cup {JsonText("ok", c) : c \in CandidateSchemas}

\* the mode fields tried with a request: every heading string and every
\* JSON structure for a request without upload, one heading for the others
FieldChoices(r) ==
  IF r.parts = <<>>
    THEN {Fields("headings", h, NoJson) : h \in StringsUpTo(MaxHeadingLen)}
           \cup {Fields("json", <<>>, j) : j \in JsonStructures}
           \cup {Fields("", <<>>, NoJson)}
    ELSE {Fields("headings", <<"a">>, NoJson)}

\* the values the model puts in a property
ReplyVals ==
  {Val("string", 1), Val("number", 1), Val("boolean", 1), Val("array", 1), Val("object", 1), Null}

Reply(content, value) == [content |-> content, value |-> value]

NoReply == Reply("none", EmptyObject)

\* the replies tried for a schema: no content, text that is not JSON, JSON
\* that is not an object, and objects over the schema's property names (and
\* one more name when the schema has at most one)
Replies(r, schema) ==
  LET keys == IF EntriesThrows(schema) THEN {} ELSE Range(KeysOf(schema.props))
      names == IF Cardinality(keys) <= 1 THEN keys \cup {<<"z">>} ELSE keys
      vals == IF r.parts = <<>> THEN ReplyVals ELSE {Val("string", 1), Val("number", 1)}
  IN  {Reply("absent", EmptyObject), Reply("notjson", EmptyObject)}
        \cup {Reply("json", Doc(k, <<>>)) : k \in {"array", "number", "string", "boolean", "null"}}
        \cup UNION {{Reply("json", Doc("object", f)) : f \in [S -> vals]} : S \in SUBSET names}

\* ------------------------------------------------------------- responses
Success(data) == [status |-> 200, success |-> TRUE, data |-> data]

Failure(status, e) == [status |-> status, success |-> FALSE, error |-> e]

\* ---------------------------------------------------------------- the form
\* the versions of the DocumentForm component in the repository
FormVariants == {"DocumentForm", "part_000", "part_001"}

\* useState(null) of file
NoFile == Part("", "", 0)

\* the files the user picks
FormFiles == {Part("file", "application/pdf", 1), Part("file", "application/pdf", 30)}

\* the initial jsonStructure: type object with two string properties
DefaultJson ==
  JsonText("ok", SchemaVal("object", "object", "mapping",
                           <<Entry(<<"a">>, Desc("string", "")),
                             Entry(<<"b">>, Desc("string", ""))>>, <<>>))

\* the texts typed into the JSON editor: the initial one, nothing, a
\* truncated text, a structure of type array, a property without type and
\* the text null
FormJsonTexts ==
  {DefaultJson, NoJson, InvalidJson("end", 17, 0),
   JsonText("ok", SchemaVal("object", "array", "mapping", OneString, <<>>)),
   JsonText("ok", SchemaVal("object", "object", "mapping",
                            <<Entry(<<"a">>, Desc("absent", ""))>>, <<>>)),
   JsonText("ok", SchemaVal("null", "absent", "absent", <<>>, <<>>))}

\* the headings typed
FormHeadings == {<<>>, <<"a">>}

\* validateJsonStructure: JSON.parse must succeed; DocumentForm and part_000
\* also want parsed.type and parsed.properties truthy (reading .type of
\* null throws, which is caught like a syntax error)
validateJsonStructure(fv, jsonString) ==
  /\ jsonString.syntax = "ok"
  /\ \/ fv = "part_001"
     \/ /\ jsonString.value.top # "null"
        /\ jsonString.value.type # "absent"
        /\ jsonString.value.pk \notin {"absent", "null"}

\* new FormData() after the appends of handleSubmit: a field is <<>> when
\* it was not appended
FormData(file, text, headings, jsonStructure, mode) ==
  [file |-> file, text |-> text, headings |-> headings,
   jsonStructure |-> jsonStructure, mode |-> mode]

NoFormData == FormData(NoFile, <<>>, <<>>, <<>>, <<>>)

\* the appends of handleSubmit
appendAll(f) ==
  FormData(f.file,
           IF f.file # NoFile THEN <<>> ELSE <<f.document>>,
           IF f.activeTab = "headings" THEN <<f.headings>> ELSE <<>>,
           IF f.activeTab = "headings" THEN <<>> ELSE <<f.jsonStructure>>,
           <<f.activeTab>>)

\* fetch('/api/extract', {method: 'POST', body: formData}): the request the
\* server sees
fetch(formData) ==
  Request("POST",
          IF formData.file # NoFile THEN <<formData.file>> ELSE <<>>,
          IF formData.text = <<>> THEN "" ELSE formData.text[1])

\* fields.mode?.[0], fields.headings?.[0], fields.jsonStructure?.[0] of a
\* request the form sent
fieldsOf(formData) ==
  Fields(IF formData.mode = <<>> THEN "" ELSE formData.mode[1],
         IF formData.headings = <<>> THEN <<>> ELSE formData.headings[1],
         IF formData.jsonStructure = <<>> THEN NoJson ELSE formData.jsonStructure[1])

\* the replies tried for a request of the form
FormReplies(schema) ==
  LET keys == IF EntriesThrows(schema) THEN {} ELSE Range(KeysOf(schema.props))
  IN  {Reply("notjson", EmptyObject), Reply("json", Doc("number", <<>>))}
        \cup UNION {{Reply("json", Doc("object", f)) : f \in [S -> {Val("string", 1)}]} :
                      S \in SUBSET keys}

\* await response.json(): the body res.json sent, without the status line
json(response) == [k \in DOMAIN response \ {"status"} |-> response[k]]

\* the component's state after the first render
FormState(fv) ==
  [variant |-> fv, document |-> "", headings |-> <<>>, jsonStructure |-> DefaultJson,
   output |-> <<>>, file |-> NoFile, loading |-> FALSE, error |-> NoError,
   activeTab |-> "headings", jsonValid |-> TRUE,
   formData |-> NoFormData, inFlight |-> 0, submits |-> 0]

\* the disabled attribute of the submit button
disabled(f) ==
  \/ f.loading
  \/ f.document = "" /\ f.file = NoFile
  \/ IF f.activeTab = "headings" THEN f.headings = <<>>
     ELSE \/ ~f.jsonValid
          \/ f.variant = "part_001" /\ f.jsonStructure = NoJson

\* ---------------------------------------------------- a concurrent request
\* Another request in the same server process, reduced to what it does to
\* the shared ./tmp directory: pc is its position, upload whether it
\* carries a file, err what its file-system calls threw.
Other(pc, upload, err) == [pc |-> pc, upload |-> upload, err |-> err]

NoOther == Other("idle", FALSE, "")

\* the path formidable gives the other request's upload: a name no upload
\* of this request has
otherFilepath == MaxFileParts + 1

\* no request on its way
NoRequest == Request("", <<>>, "")

\* --------------------------------------------------------------- state
VARIABLES
  variant,           \* which handler serves the request
  req,               \* the request: method, file parts, text field
  pc,                \* the handler's position
  tmpDir,            \* whether ./tmp exists
  tmpFiles,          \* the uploads stored in ./tmp (index of their part)
  files,             \* files.file after form.parse (indices of the parts)
  uploadedFilePath,  \* 0 for null, else the index of the part
  fields,            \* mode, headings, jsonStructure as read by the handler
  documentText,      \* "" or the text: "T" pasted, "F" extracted
  schema,            \* the schema driving the request
  reply,             \* the model's reply
  parsedContent,     \* the reply after JSON.parse and the loop
  err,               \* the error on its way to the catch block
  responses,         \* the responses sent on res
  steps,             \* the pipeline steps begun, in order
  extractorRan,      \* the processors whose process() was called
  chatCalls,         \* the number of ollama.chat calls
  prompt,            \* the prompt generatePrompt returned
  workers,           \* the OCR workers created and not terminated
  form,              \* the state of the DocumentForm component
  other,             \* another request served at the same time
  extracted          \* how the extractor call ended: "" not called, "text",
                     \* "empty" (returned no text) or "threw"

vars == <<variant, req, pc, tmpDir, tmpFiles, files, uploadedFilePath, fields,
          documentText, schema, reply, parsedContent, err, responses, steps,
          extractorRan, chatCalls, extracted, prompt, workers, form, other>>

Init ==
  /\ variant \in Variants
  /\ req \in Requests
  /\ pc = "start"
  /\ tmpDir = FALSE
  /\ tmpFiles = {}
  /\ files = <<>>
  /\ uploadedFilePath = 0
  /\ fields = NoFields
  /\ documentText = ""
  /\ schema = NoSchema
  /\ reply = NoReply
  /\ parsedContent = EmptyObject
  /\ err = NoError
  /\ responses = <<>>
  /\ steps = <<>>
  /\ extractorRan = {}
  /\ chatCalls = 0
  /\ extracted = ""
  /\ prompt = NoPrompt
  /\ workers = 0
  /\ form = FormState("DocumentForm")
  /\ other = NoOther

\* the mode fields of the request: those the form appended when the
\* request is the form's, else any of the fields tried
SubmittedFields ==
  IF form.inFlight > 0 THEN {fieldsOf(form.formData)} ELSE FieldChoices(req)

\* the replies of the model that are tried
ModelReplies ==
  IF form.inFlight > 0 THEN FormReplies(schema) ELSE Replies(req, schema)

\* throw e inside the try block: control goes to the catch block
Raise(e) == /\ err' = e
            /\ pc' = "catch"

\* a method check that answers 405 without returning
MethodCheck_fallingThrough ==
  /\ pc = "start"
  /\ IF req.method # "POST"
       THEN /\ responses' = Append(responses, Failure(405, Msg("Method not allowed")))
            /\ pc' = "mkdir"
       ELSE /\ pc' = "mkdir"
            /\ UNCHANGED responses
  /\ UNCHANGED <<form, other, variant, workers, prompt, extracted, req, tmpDir, tmpFiles, files, uploadedFilePath, fields,
                 documentText, schema, reply, parsedContent, err, steps,
                 extractorRan, chatCalls>>

\* if (req.method !== 'POST') return res.status(405).json(...)
MethodCheck ==
  /\ pc = "start"
  /\ IF req.method # "POST"
       THEN /\ responses' = Append(responses, Failure(405, Msg("Method not allowed")))
            /\ pc' = "done"
       ELSE /\ pc' = "mkdir"
            /\ UNCHANGED responses
  /\ UNCHANGED <<form, other, variant, workers, prompt, extracted, req, tmpDir, tmpFiles, files, uploadedFilePath, fields,
                 documentText, schema, reply, parsedContent, err, steps,
                 extractorRan, chatCalls>>

\* if (!fs.existsSync(tempDir)) ...: the check, made when the handler
\* reaches it; the directory is created by the awaited call that follows
EnsureTempDir ==
  /\ pc = "mkdir"
  /\ pc' = IF tmpDir THEN "parse" ELSE "mkdirp"
  /\ UNCHANGED <<form, other, variant, workers, prompt, extracted, req, tmpDir, tmpFiles,
                 files, uploadedFilePath, fields, documentText, schema, reply,
                 parsedContent, err, responses, steps, extractorRan, chatCalls>>

\* fs.promises.mkdir(path, { recursive }): it rejects with EEXIST when the
\* directory exists and recursive is not set
mkdirRejects(exists, recursive) == exists /\ ~recursive

EEXIST == Msg("EEXIST: file already exists, mkdir './tmp'")

\* a mkdir without { recursive: true }
mkdir_nonRecursive ==
  /\ pc = "mkdirp"
  /\ IF mkdirRejects(tmpDir, FALSE)
       THEN /\ Raise(EEXIST)
            /\ UNCHANGED tmpDir
       ELSE /\ tmpDir' = TRUE
            /\ pc' = "parse"
            /\ UNCHANGED err
  /\ UNCHANGED <<form, other, variant, workers, prompt, extracted, req, tmpFiles, files,
                 uploadedFilePath, fields, documentText, schema, reply, parsedContent,
                 responses, steps, extractorRan, chatCalls>>

\* await fs.promises.mkdir(tempDir, { recursive: true }): with recursive the
\* call resolves whether or not the directory exists by now
mkdir ==
  /\ pc = "mkdirp"
  /\ IF mkdirRejects(tmpDir, TRUE)
       THEN /\ Raise(EEXIST)
            /\ UNCHANGED tmpDir
       ELSE /\ tmpDir' = TRUE
            /\ pc' = "parse"
            /\ UNCHANGED err
  /\ UNCHANGED <<form, other, variant, workers, prompt, extracted, req, tmpFiles, files,
                 uploadedFilePath, fields, documentText, schema, reply, parsedContent,
                 responses, steps, extractorRan, chatCalls>>

\* the parts formidable stores: those the filter lets through
RECURSIVE Accepted(_, _, _)
Accepted(v, parts, i) ==
  IF i > Len(parts) THEN <<>>
  ELSE (IF filter(v, parts[i]) THEN <<i>> ELSE <<>>) \o Accepted(v, parts, i + 1)

\* form.parse(req, callback).  A stored part larger than maxFileSize makes
\* formidable call back with an error; formidable 3 (the version whose
\* parse yields the arrays of field values the handler reads) destroys and
\* unlinks the files it had opened, so none of them stays in ./tmp.
ParseUpload ==
  /\ pc = "parse"
  /\ steps' = Append(steps, "parse")
  /\ LET acc == Accepted(variant, req.parts, 1)
         tooBig == {j \in 1..Len(acc) : req.parts[acc[j]].size > maxFileSize(variant)}
     IN  IF tooBig # {}
           THEN /\ Raise(Msg("options.maxFileSize exceeded"))
                /\ UNCHANGED <<tmpFiles, files>>
           ELSE /\ tmpFiles' = tmpFiles \cup Range(acc)
                /\ files' = acc
                /\ pc' = "fields"
                /\ UNCHANGED err
  /\ UNCHANGED <<form, other, variant, workers, prompt, extracted, req, tmpDir, uploadedFilePath, fields, documentText,
                 schema, reply, parsedContent, responses, extractorRan, chatCalls>>

\* const text = fields.text?.[0] || ''; let documentText = text;
\* if (files.file && Array.isArray(files.file)) { uploadedFilePath = ...;
\* if (!file.mimetype) throw ... }
ReadFields ==
  /\ pc = "fields"
  /\ documentText' = req.text
  /\ IF files # <<>>
       THEN /\ uploadedFilePath' = files[1]
            /\ IF req.parts[files[1]].mimetype = ""
                 THEN Raise(Msg("File type not recognized"))
                 ELSE /\ pc' = "extract"
                      /\ UNCHANGED err
       ELSE /\ pc' = "nonempty"
            /\ UNCHANGED <<uploadedFilePath, err>>
  /\ UNCHANGED <<form, other, variant, workers, prompt, extracted, req, tmpDir, tmpFiles, files, fields, schema, reply,
                 parsedContent, responses, steps, extractorRan, chatCalls>>


\* the awaited calls of a processor's process(), any of which can reject.
\* The image processor awaits sharp(...).toBuffer(), createWorker('eng'),
\* worker.recognize(pngBuffer) and worker.terminate(), in this order.
Awaits(x) ==
  IF x = "image" THEN {"toBuffer", "createWorker", "recognize", "terminate"}
                 ELSE {"process"}

\* the OCR workers a call of process() has created when it leaves at `exit`:
\* at the rejected await, or at "return"
created(x, exit) ==
  IF x = "image" /\ exit \in {"recognize", "terminate", "return"} THEN 1 ELSE 0

\* the OCR workers it has terminated by then; a worker whose terminate()
\* rejected is not terminated
terminated(x, exit) == IF x = "image" /\ exit = "return" THEN 1 ELSE 0

\* documentText = await processFile(fileBuffer, file.mimetype) in part_002,
\* await parseFile(file.filepath, file.mimetype) in extract.ts.  The
\* extractor returns text, returns no text, or throws.
ProcessFile ==
  /\ pc = "extract"
  /\ steps' = Append(steps, "extract")
  /\ LET m == req.parts[uploadedFilePath].mimetype
         x == Extractor(variant, m)
         prefix == IF variant = "part_002" THEN "Error processing file: "
                                           ELSE "Error parsing file: "
     IN  IF x = "none"
           THEN /\ Raise(Error(IF variant = "part_002" THEN "" ELSE prefix,
                               "Unsupported file type", <<>>, m))
                /\ UNCHANGED <<documentText, extractorRan, extracted, workers>>
           ELSE /\ extractorRan' = extractorRan \cup {x}
                /\ \/ /\ documentText' \in {"F", ""}
                      /\ extracted' = IF documentText' = "" THEN "empty" ELSE "text"
                      /\ workers' = workers + created(x, "return") - terminated(x, "return")
                      /\ pc' = "nonempty"
                      /\ UNCHANGED err
                   \/ /\ Raise(Error(prefix, "extractor failed", <<>>, ""))
                      /\ extracted' = "threw"
                      /\ \E await \in Awaits(x) :
                           workers' = workers + created(x, await) - terminated(x, await)
                      /\ UNCHANGED documentText
  /\ UNCHANGED <<form, other, variant, prompt, req, tmpDir, tmpFiles, files, uploadedFilePath, fields,
                 schema, reply, parsedContent, responses, chatCalls>>

CheckDocument_unchecked ==
  /\ pc = "nonempty"
  /\ steps' = Append(steps, "nonempty")
  /\ pc' = "schema"
  /\ UNCHANGED <<form, other, variant, workers, prompt, extracted, req, tmpDir, tmpFiles, files, uploadedFilePath, fields,
                 documentText, schema, reply, parsedContent, responses,
                 extractorRan, chatCalls, err>>

\* if (!documentText) throw new Error('Document content is required')
CheckDocument ==
  /\ pc = "nonempty"
  /\ steps' = Append(steps, "nonempty")
  /\ IF documentText = ""
       THEN Raise(Msg("Document content is required"))
       ELSE /\ pc' = "schema"
            /\ UNCHANGED err
  /\ UNCHANGED <<form, other, variant, workers, prompt, extracted, req, tmpDir, tmpFiles, files, uploadedFilePath, fields,
                 documentText, schema, reply, parsedContent, responses,
                 extractorRan, chatCalls>>

\* if (mode === 'headings') ... else if (mode === 'json') ... else throw
BuildSchema ==
  /\ pc = "schema"
  /\ steps' = Append(steps, "schema")
  /\ \E f \in SubmittedFields :
       /\ fields' = f
       /\ IF f.mode = "headings"
            THEN IF f.headings = <<>>
                   THEN /\ Raise(Msg("Headings are required in headings mode"))
                        /\ UNCHANGED schema
                   ELSE /\ schema' = HeadingSchema(f.headings)
                        /\ pc' = "prompt"
                        /\ UNCHANGED err
          ELSE IF f.mode = "json"
            THEN IF f.jsonStructure.syntax = "empty"
                   THEN /\ Raise(Msg("JSON structure is required in JSON mode"))
                        /\ UNCHANGED schema
                 ELSE IF f.jsonStructure.syntax = "invalid"
                   THEN /\ \E e \in parseErrors(f.jsonStructure) :
                             Raise(Wrap("Invalid JSON structure: ", e))
                        /\ UNCHANGED schema
                 ELSE /\ schema' = f.jsonStructure.value
                      /\ LET r == validateSchema(variant, f.jsonStructure.value)
                         IN  IF r.ok
                               THEN /\ pc' = "prompt"
                                    /\ UNCHANGED err
                               ELSE Raise(Wrap("Invalid JSON structure: ", r.err))
          ELSE /\ Raise(Msg("Invalid mode specified"))
               /\ UNCHANGED schema
  /\ UNCHANGED <<form, other, variant, workers, prompt, extracted, req, tmpDir, tmpFiles, files, uploadedFilePath,
                 documentText, reply, parsedContent, responses, extractorRan,
                 chatCalls>>

\* const prompt = generatePrompt(schema, documentText)
BuildPrompt ==
  /\ pc = "prompt"
  /\ steps' = Append(steps, "prompt")
  /\ IF generatePromptThrows(schema)
       THEN /\ Raise(Msg("Cannot convert undefined or null to object"))
            /\ UNCHANGED prompt
       ELSE /\ prompt' = generatePrompt(variant, schema, documentText)
            /\ pc' = "model"
            /\ UNCHANGED err
  /\ UNCHANGED <<form, other, variant, workers, extracted, req, tmpDir, tmpFiles, files, uploadedFilePath, fields,
                 documentText, schema, reply, parsedContent, responses,
                 extractorRan, chatCalls>>

\* a handler that calls the model a second time after a rejection
CallModel_retrying ==
  /\ pc = "model"
  /\ steps' = IF chatCalls = 0 THEN Append(steps, "model") ELSE steps
  /\ chatCalls' = chatCalls + 1
  /\ \/ \E r \in ModelReplies :
          /\ reply' = r
          /\ pc' = "reconcile"
          /\ UNCHANGED err
     \/ /\ IF chatCalls = 0
             THEN /\ pc' = "model"
                  /\ UNCHANGED err
             ELSE Raise(Msg("fetch failed"))
        /\ UNCHANGED reply
  /\ UNCHANGED <<form, other, variant, workers, prompt, extracted, req, tmpDir, tmpFiles, files, uploadedFilePath, fields,
                 documentText, schema, parsedContent, responses, extractorRan>>

\* const response = await ollama.chat({...}): a reply, or a rejection
CallModel ==
  /\ pc = "model"
  /\ steps' = Append(steps, "model")
  /\ chatCalls' = chatCalls + 1
  /\ \/ \E r \in ModelReplies :
          /\ reply' = r
          /\ pc' = "reconcile"
          /\ UNCHANGED err
     \/ /\ Raise(Msg("fetch failed"))
        /\ UNCHANGED reply
  /\ UNCHANGED <<form, other, variant, workers, prompt, extracted, req, tmpDir, tmpFiles, files, uploadedFilePath, fields,
                 documentText, schema, parsedContent, responses, extractorRan>>

\* try { parsedContent = JSON.parse(...); Object.entries(...).forEach(...) }
\* catch (error) { throw new Error(`Error processing model response: ...`) }
Reconcile ==
  /\ pc = "reconcile"
  /\ steps' = Append(steps, "reconcile")
  /\ LET r == processReply(variant, schema, reply)
     IN  /\ parsedContent' = r.content
         /\ IF r.ok
              THEN /\ pc' = "respond"
                   /\ UNCHANGED err
              ELSE Raise(Wrap("Error processing model response: ", r.err))
  /\ UNCHANGED <<form, other, variant, workers, prompt, extracted, req, tmpDir, tmpFiles, files, uploadedFilePath, fields,
                 documentText, schema, reply, responses, extractorRan, chatCalls>>

Respond_thenCatch ==
  /\ pc = "respond"
  /\ steps' = Append(steps, "respond")
  /\ responses' = Append(responses, Success(stringify(parsedContent)))
  /\ pc' = "catch"
  /\ UNCHANGED <<form, other, variant, workers, prompt, extracted, req, tmpDir, tmpFiles, files, uploadedFilePath, fields,
                 documentText, schema, reply, parsedContent, err, extractorRan,
                 chatCalls>>

\* res.status(200).json({ success: true, data: parsedContent })
Respond ==
  /\ pc = "respond"
  /\ steps' = Append(steps, "respond")
  /\ responses' = Append(responses, Success(stringify(parsedContent)))
  /\ pc' = "finally"
  /\ UNCHANGED <<form, other, variant, workers, prompt, extracted, req, tmpDir, tmpFiles, files, uploadedFilePath, fields,
                 documentText, schema, reply, parsedContent, err, extractorRan,
                 chatCalls>>

\* catch (error) { res.status(500).json({ success: false, error: ... }) }
Catch ==
  /\ pc = "catch"
  /\ responses' = Append(responses, Failure(500, err))
  /\ pc' = "finally"
  /\ UNCHANGED <<form, other, variant, workers, prompt, extracted, req, tmpDir, tmpFiles, files, uploadedFilePath, fields,
                 documentText, schema, reply, parsedContent, err, steps,
                 extractorRan, chatCalls>>

\* if (fs.existsSync(filepath)) await fs.promises.unlink(filepath)
cleanupFile(filepath, stored) == stored \ {filepath}

\* finally { if (uploadedFilePath) await cleanupFile(uploadedFilePath) }
Finally ==
  /\ pc = "finally"
  /\ tmpFiles' = IF uploadedFilePath # 0 THEN cleanupFile(uploadedFilePath, tmpFiles)
                                         ELSE tmpFiles
  /\ pc' = "done"
  /\ UNCHANGED <<form, other, variant, workers, prompt, extracted, req, tmpDir, files, uploadedFilePath, fields,
                 documentText, schema, reply, parsedContent, err, responses, steps,
                 extractorRan, chatCalls>>

Next ==
  \/ MethodCheck
  \/ EnsureTempDir
  \/ mkdir
  \/ ParseUpload
  \/ ReadFields
  \/ ProcessFile
  \/ CheckDocument
  \/ BuildSchema
  \/ BuildPrompt
  \/ CallModel
  \/ Reconcile
  \/ Respond
  \/ Catch
  \/ Finally

Spec == Init /\ [][Next]_vars

\* ------------------------------------------------------- the form's events
\* every variable of the handler
handlerVars ==
  <<variant, req, pc, tmpDir, tmpFiles, files, uploadedFilePath, fields,
    documentText, schema, reply, parsedContent, err, responses, steps,
    extractorRan, chatCalls, extracted, prompt, workers>>

\* The input events and the handler's steps change different variables and
\* neither reads what the other writes, so an input event during a request
\* is followed at one point of the request only: before the handler's first
\* step.
InputEvent == form.inFlight = 0 \/ pc = "start"

\* a file handler that leaves the pasted text in place
handleFileChange_keepingText ==
  /\ InputEvent
  /\ \E f \in FormFiles \cup {NoFile} :
       form' = IF form.variant # "part_001" /\ f # NoFile /\ ~formAccepts(f.size)
                 THEN [form EXCEPT !.error = Msg("File size must be less than 25MB")]
                 ELSE [form EXCEPT !.file = f, !.error = NoError]
  /\ UNCHANGED <<handlerVars, other>>

\* handleFileChange: the file input changed to f (NoFile when the choice
\* was cancelled).  DocumentForm and part_000 refuse a file above 25 MB.
handleFileChange ==
  /\ InputEvent
  /\ \E f \in FormFiles \cup {NoFile} :
       form' = IF form.variant # "part_001" /\ f # NoFile /\ ~formAccepts(f.size)
                 THEN [form EXCEPT !.error = Msg("File size must be less than 25MB")]
                 ELSE [form EXCEPT !.file = f, !.document = "", !.error = NoError]
  /\ UNCHANGED <<handlerVars, other>>

\* handleTextChange; the textarea is disabled while a file is selected
handleTextChange ==
  /\ InputEvent
  /\ form.file = NoFile
  /\ \E value \in {"", "T"} :
       form' = [form EXCEPT !.document = value, !.file = NoFile, !.error = NoError]
  /\ UNCHANGED <<handlerVars, other>>

\* onChange={e => setHeadings(e.target.value)}
setHeadings ==
  /\ InputEvent
  /\ \E value \in FormHeadings : form' = [form EXCEPT !.headings = value]
  /\ UNCHANGED <<handlerVars, other>>

\* onChange={e => setJsonStructure(e.target.value)}, and the effect that
\* validates the new text after the render
setJsonStructure ==
  /\ InputEvent
  /\ \E value \in FormJsonTexts :
       form' = [form EXCEPT !.jsonStructure = value,
                            !.jsonValid = validateJsonStructure(form.variant, value)]
  /\ UNCHANGED <<handlerVars, other>>

\* onValueChange={setActiveTab}
setActiveTab ==
  /\ InputEvent
  /\ \E value \in {"headings", "json"} : form' = [form EXCEPT !.activeTab = value]
  /\ UNCHANGED <<handlerVars, other>>

\* handleSubmit up to the await of fetch.  The submit event reaches it only
\* while the submit button is enabled; DocumentForm repeats the button's
\* condition as its first statement, part_000 and part_001 validate the
\* JSON text once more.  The server is taken to be free: it serves one
\* request of this specification at a time, with fresh locals.
handleSubmit ==
  /\ ~disabled(form)
  /\ form.submits < MaxSubmits
  /\ pc \in {"idle", "done"}
  /\ IF /\ form.variant # "DocumentForm"
        /\ form.activeTab = "json"
        /\ ~validateJsonStructure(form.variant, form.jsonStructure)
       THEN /\ form' = [form EXCEPT !.output = <<>>, !.loading = FALSE,
                                    !.error = Msg("Invalid JSON structure"),
                                    !.submits = @ + 1]
            /\ UNCHANGED handlerVars
       ELSE /\ form' = [form EXCEPT !.output = <<>>, !.error = NoError,
                                    !.loading = TRUE,
                                    !.formData = appendAll(form),
                                    !.inFlight = @ + 1, !.submits = @ + 1]
            /\ req' = fetch(appendAll(form))
            /\ pc' = "start"
            /\ files' = <<>>
            /\ uploadedFilePath' = 0
            /\ fields' = NoFields
            /\ documentText' = ""
            /\ schema' = NoSchema
            /\ reply' = NoReply
            /\ parsedContent' = EmptyObject
            /\ err' = NoError
            /\ responses' = <<>>
            /\ steps' = <<>>
            /\ extractorRan' = {}
            /\ chatCalls' = 0
            /\ extracted' = ""
            /\ prompt' = NoPrompt
            /\ UNCHANGED <<variant, tmpDir, tmpFiles, workers>>
  /\ UNCHANGED other

\* the rest of handleSubmit when fetch rejects (the server is not reached):
\* catch (err) { setError(err.message) } finally { setLoading(false) }
fetchRejects ==
  /\ form.inFlight > 0
  /\ pc = "start"
  /\ form' = [form EXCEPT !.error = Msg("Failed to fetch"), !.loading = FALSE,
                          !.inFlight = @ - 1, !.formData = NoFormData]
  /\ pc' = "idle"
  /\ req' = NoRequest
  /\ UNCHANGED <<variant, tmpDir, tmpFiles, files, uploadedFilePath, fields,
                 documentText, schema, reply, parsedContent, err, responses, steps,
                 extractorRan, chatCalls, extracted, prompt, workers, other>>

\* the rest of handleSubmit when fetch resolves with the handler's response:
\* if (!response.ok) throw new Error(errorData.error || 'Something went
\* wrong') (part_001 reads error.message); setOutput(await response.json());
\* catch { setError(err.message) } finally { setLoading(false) }.  The
\* handler's invocation is over by then and its locals are gone.
fetchResolves ==
  /\ form.inFlight > 0
  /\ pc = "done"
  /\ Len(responses) > 0
  /\ LET response == responses[1]
         ok == response.status = 200
         errorData == json(response)
         message == IF form.variant = "part_001" \/ errorData.error = NoError
                      THEN Msg("Something went wrong")
                      ELSE errorData.error
     IN  form' = IF ok THEN [form EXCEPT !.output = <<json(response)>>,
                                         !.loading = FALSE, !.inFlight = @ - 1,
                                         !.formData = NoFormData]
                       ELSE [form EXCEPT !.error = message,
                                         !.loading = FALSE, !.inFlight = @ - 1,
                                         !.formData = NoFormData]
  /\ req' = NoRequest
  /\ pc' = "idle"
  /\ files' = <<>>
  /\ uploadedFilePath' = 0
  /\ fields' = NoFields
  /\ documentText' = ""
  /\ schema' = NoSchema
  /\ reply' = NoReply
  /\ parsedContent' = EmptyObject
  /\ err' = NoError
  /\ responses' = <<>>
  /\ steps' = <<>>
  /\ extractorRan' = {}
  /\ chatCalls' = 0
  /\ extracted' = ""
  /\ prompt' = NoPrompt
  /\ UNCHANGED <<variant, tmpDir, tmpFiles, workers, other>>

\* requests of another client that carry a file and text at once
DirectRequests ==
  {Request("POST", <<Part("file", m, 1)>>, "T") : m \in {"application/pdf", "image/jpeg"}}

\* the form after its first render, and the server either idle or at the
\* start of a request of another client
InitForm ==
  /\ variant \in Variants
  /\ \/ req = NoRequest /\ pc = "idle"
     \/ req \in DirectRequests /\ pc = "start"
  /\ tmpDir = FALSE
  /\ tmpFiles = {}
  /\ files = <<>>
  /\ uploadedFilePath = 0
  /\ fields = NoFields
  /\ documentText = ""
  /\ schema = NoSchema
  /\ reply = NoReply
  /\ parsedContent = EmptyObject
  /\ err = NoError
  /\ responses = <<>>
  /\ steps = <<>>
  /\ extractorRan = {}
  /\ chatCalls = 0
  /\ extracted = ""
  /\ prompt = NoPrompt
  /\ workers = 0
  /\ form \in {FormState(fv) : fv \in FormVariants}
  /\ other = NoOther

NextForm ==
  \/ handleFileChange
  \/ handleTextChange
  \/ setHeadings
  \/ setJsonStructure
  \/ setActiveTab
  \/ handleSubmit
  \/ fetchRejects
  \/ fetchResolves
  \/ Next

SpecForm == InitForm /\ [][NextForm]_vars

\* -------------------------------------------- two requests at the same time
\* The other request runs the same handler in the same process.  Its steps
\* are the handler's awaits that touch ./tmp; what it computes in between
\* stays in its own locals.
\* this request's locals and the response it sends
locals ==
  <<variant, req, pc, files, uploadedFilePath, fields, documentText, schema, reply,
    parsedContent, err, responses, steps, extractorRan, chatCalls, extracted, prompt,
    workers>>

\* the other request's if (!fs.existsSync(tempDir))
other_existsSync ==
  /\ other.pc = "start"
  /\ other' = [other EXCEPT !.pc = IF tmpDir THEN "parse" ELSE "mkdirp"]
  /\ UNCHANGED <<locals, tmpDir, tmpFiles, form>>

\* the other request's await fs.promises.mkdir(tempDir, { recursive: true })
other_mkdir ==
  /\ other.pc = "mkdirp"
  /\ IF mkdirRejects(tmpDir, TRUE)
       THEN /\ other' = [other EXCEPT !.pc = "finally", !.err = EEXIST.text]
            /\ UNCHANGED tmpDir
       ELSE /\ other' = [other EXCEPT !.pc = "parse"]
            /\ tmpDir' = TRUE
  /\ UNCHANGED <<locals, tmpFiles, form>>

\* the other request's form.parse: formidable stores its upload under a
\* name of its own
other_parse ==
  /\ other.pc = "parse"
  /\ other' = [other EXCEPT !.pc = "finally"]
  /\ tmpFiles' = IF other.upload THEN tmpFiles \cup {otherFilepath} ELSE tmpFiles
  /\ UNCHANGED <<locals, tmpDir, form>>

\* the other request's finally { if (uploadedFilePath) await cleanupFile(...) }
other_finally ==
  /\ other.pc = "finally"
  /\ other' = [other EXCEPT !.pc = "done"]
  /\ tmpFiles' = IF other.upload /\ other.err = ""
                   THEN cleanupFile(otherFilepath, tmpFiles)
                   ELSE tmpFiles
  /\ UNCHANGED <<locals, tmpDir, form>>

\* the requests that reach the temporary directory
PairRequests == {r \in Requests : r.method = "POST"}

\* both requests have arrived and neither has run yet
InitPair ==
  /\ variant \in Variants
  /\ req \in PairRequests
  /\ pc = "start"
  /\ tmpDir \in BOOLEAN
  /\ tmpFiles = {}
  /\ files = <<>>
  /\ uploadedFilePath = 0
  /\ fields = NoFields
  /\ documentText = ""
  /\ schema = NoSchema
  /\ reply = NoReply
  /\ parsedContent = EmptyObject
  /\ err = NoError
  /\ responses = <<>>
  /\ steps = <<>>
  /\ extractorRan = {}
  /\ chatCalls = 0
  /\ extracted = ""
  /\ prompt = NoPrompt
  /\ workers = 0
  /\ form = FormState("DocumentForm")
  /\ other \in {Other("start", u, "") : u \in BOOLEAN}

NextPair ==
  \/ other_existsSync
  \/ other_mkdir
  \/ other_parse
  \/ other_finally
  \/ Next

SpecPair == InitPair /\ [][NextPair]_vars

\* ================================================================ claims
\* the request has left the handler
Finished == pc = "done"

\* the model replied with text that parses as JSON (no content parses as {})
Replied == reply.content \in {"json", "absent"}

\* the reply as parsed, before the reconciliation loop touches it
ReplyDoc == IF reply.content = "json" THEN reply.value ELSE EmptyObject

\* the declared-type check of the specification: an array is a sequence,
\* every other type is compared with the runtime type
Matches(type, value) ==
  IF type = "array" THEN isArray(value) ELSE typeof(value) = type

\* the defaults the specification lists
SpecDefault(type) ==
  CASE type = "array" -> Val("array", 0)
    [] type = "object" -> Val("object", 0)
    [] type = "number" -> Val("number", 0)
    [] type = "boolean" -> Val("boolean", 0)
    [] type = "string" -> Val("string", 0)

\* every property of the schema declares one of the five types
WellTyped ==
  /\ schema.pk = "mapping"
  /\ \A i \in 1..Len(schema.props) :
       ~schema.props[i].d.nul /\ schema.props[i].d.type \in FieldTypes

Present(key) == key \in DOMAIN ReplyDoc.f

\* every property the reply holds has the declared type
PresentMatch ==
  \A i \in 1..Len(schema.props) :
    Present(schema.props[i].key) =>
      Matches(schema.props[i].d.type, ReplyDoc.f[schema.props[i].key])

Succeeded == Len(responses) = 1 /\ responses[1].success

Failed == Len(responses) = 1 /\ ~responses[1].success

\* C1: for every schema property absent from the model's parsed reply the
\* request does not fail and the returned data holds the default of the
\* property's type ([] array, {} object, 0 number, false boolean, "" string).
\* Stated for a reply that is a JSON object whose other properties have
\* their declared types, so that nothing else fails the request.
C1_ReconciliationDefaulting ==
  (Finished /\ Replied /\ ReplyDoc.kind = "object" /\ WellTyped /\ PresentMatch) =>
    /\ Succeeded
    /\ \A i \in 1..Len(schema.props) :
         LET key == schema.props[i].key
         IN  ~Present(key) =>
               /\ key \in DOMAIN responses[1].data.f
               /\ responses[1].data.f[key] = SpecDefault(schema.props[i].d.type)

\* the first property, in the order the handler enumerates them, at which
\* the reconciliation loop stops for the reply: a property present with
\* another type, or in extract.ts a property the reply lacks
Stops(e) ==
  IF Present(e.key) THEN ~Matches(e.d.type, ReplyDoc.f[e.key])
                    ELSE variant = "extract_ts"

FirstStop ==
  LET es == entries(schema)
      i == CHOOSE j \in 1..Len(es) : Stops(es[j]) /\ \A k \in 1..(j-1) : ~Stops(es[k])
  IN  es[i].key

Mismatched(i) ==
  /\ Present(schema.props[i].key)
  /\ ~Matches(schema.props[i].d.type, ReplyDoc.f[schema.props[i].key])

\* C2 as stated: whenever a schema property is present in the reply with a
\* runtime type different from its declared type, the request fails with a
\* message naming that field, the value is not replaced by a default and no
\* success response is produced.
C2_RejectionNamesEveryField ==
  (Finished /\ reply.content = "json") =>
    \A i \in 1..Len(schema.props) :
      Mismatched(i) =>
        /\ Failed
        /\ responses[1].error.field = <<schema.props[i].key>>
        /\ parsedContent.f[schema.props[i].key] = ReplyDoc.f[schema.props[i].key]

\* C2 as amended: whenever a schema property is present in the reply with a
\* runtime type different from its declared type, the request fails with a
\* message naming the first property, in the handler's enumeration order, at
\* which reconciliation stops; the mismatching value is not replaced by a
\* default and no success response is produced.
C2_ReconciliationRejection ==
  (Finished /\ reply.content = "json") =>
    \A i \in 1..Len(schema.props) :
      Mismatched(i) =>
        /\ Failed
        /\ responses[1].error.wrap = "Error processing model response: "
        /\ responses[1].error.field = <<FirstStop>>
        /\ parsedContent.f[schema.props[i].key] = ReplyDoc.f[schema.props[i].key]

\* a finished request whose reply held two mismatching properties
C2_Witness ==
  /\ Finished
  /\ reply.content = "json"
  /\ Failed
  /\ Cardinality({i \in 1..Len(schema.props) : Mismatched(i)}) >= 2

\* C3: in every success response, data contains every property name of the
\* schema and each value passes the declared-type check.
C3_SchemaShapedOutput ==
  \A n \in 1..Len(responses) :
    responses[n].success =>
      \A i \in 1..Len(schema.props) :
        /\ schema.props[i].key \in DOMAIN responses[n].data.f
        /\ Matches(schema.props[i].d.type, responses[n].data.f[schema.props[i].key])

\* the reply is a mapping that holds every schema property with its type
Conformant ==
  /\ reply.content = "json"
  /\ reply.value.kind = "object"
  /\ ~EntriesThrows(schema)
  /\ \A i \in 1..Len(schema.props) :
       /\ ~schema.props[i].d.nul
       /\ Present(schema.props[i].key)
       /\ Matches(schema.props[i].d.type, ReplyDoc.f[schema.props[i].key])

\* C4: reconciling a mapping that already holds every schema property with
\* a matching type succeeds and returns the mapping unchanged, and
\* reconciling the result again changes nothing.
C4_ReconciliationIdempotence ==
  (Conformant /\ pc \in {"respond", "catch", "finally", "done"}) =>
    /\ pc # "catch"
    /\ err = NoError
    /\ parsedContent = reply.value
    /\ (Finished => Succeeded /\ responses[1].data = reply.value)
    /\ LET again == reconcile(variant, entries(schema), parsedContent)
       IN  again.ok /\ again.content = parsedContent

\* a finished request whose conformant reply filled two properties
C4_Witness ==
  /\ Conformant
  /\ Finished
  /\ Succeeded
  /\ Len(schema.props) >= 2

\* the fixed order of the pipeline steps
StepOrder ==
  <<"parse", "extract", "nonempty", "schema", "prompt", "model", "reconcile", "respond">>

StepIndex(s) == CHOOSE i \in 1..Len(StepOrder) : StepOrder[i] = s

Began(s) == s \in Range(steps)

\* the steps begun so far respect the fixed order
StepsInOrder ==
  \A i \in 1..Len(steps) : \A j \in (i+1)..Len(steps) :
    StepIndex(steps[i]) < StepIndex(steps[j])

\* what has to be in place when the model is called
ModelCallPrepared ==
  Began("model") =>
    /\ Began("parse") /\ Began("nonempty") /\ Began("schema") /\ Began("prompt")
    /\ (files # <<>> => Began("extract") /\ documentText = "F")
    /\ documentText # ""
    /\ schema # NoSchema
    /\ schema.type = "object"
    /\ (fields.mode = "json" => validateSchema(variant, schema).ok)

\* C5: the steps of a request run in the order parse upload, extract text,
\* check non-empty text, build/validate schema, build prompt, call model,
\* reconcile, respond; once a step has failed no later step runs; the model
\* is called only after extraction gave non-empty text and the schema was
\* built (and validated in json mode).
C5_PipelineOrder ==
  /\ [](StepsInOrder /\ ModelCallPrepared)
  /\ [][err # NoError =>
          /\ steps' = steps
          /\ chatCalls' = chatCalls
          /\ extractorRan' = extractorRan
          /\ err' = err]_vars

\* a request that ran every step, and one that stopped at the schema step
C5_Witness ==
  \/ steps = StepOrder
  \/ /\ Finished
     /\ steps = <<"parse", "nonempty", "schema">>
     /\ err # NoError

\* C6: every request produces exactly one response, either {success: true,
\* data} or {success: false, error}; never both, never a second response,
\* and a failure response carries no data.
C6_TerminalOutcomes ==
  /\ Len(responses) <= 1
  /\ (Finished => Len(responses) = 1)
  /\ (pc \in {"start", "mkdir", "mkdirp", "parse", "fields", "extract", "nonempty", "schema",
              "prompt", "model", "reconcile", "respond", "catch"} => responses = <<>>)
  /\ \A n \in 1..Len(responses) :
       IF responses[n].success
         THEN DOMAIN responses[n] = {"status", "success", "data"}
         ELSE DOMAIN responses[n] = {"status", "success", "error"}

\* a finished request that was answered with a failure after the model had
\* replied
C6_Witness ==
  /\ Finished
  /\ Failed
  /\ Began("reconcile")

\* C7: an uploaded file written to the temporary directory has been removed
\* when the request is finished, on every exit path.
C7_TemporaryUploadRelease ==
  Finished => tmpFiles = {}

\* the media types some extractor of the serving handler accepts
Routed(v) == {m \in MediaTypes : Extractor(v, m) # "none"}

\* C8: an upload whose declared media type is in no extractor's accepted
\* list is answered with the failure "Unsupported file type: <type>", and no
\* extractor and no model call runs.
C8_UnsupportedFormat ==
  (/\ Finished
   /\ req.method = "POST"
   /\ Len(req.parts) = 1
   /\ req.parts[1].name = "file"
   /\ req.parts[1].mimetype # ""
   /\ req.parts[1].size <= maxFileSize(variant)
   /\ req.parts[1].mimetype \notin Routed(variant)) =>
    /\ Failed
    /\ responses[1].error = Error("", "Unsupported file type", <<>>, req.parts[1].mimetype)
    /\ extractorRan = {}
    /\ chatCalls = 0

\* the media types declared as supported: the ones the form advertises and
\* the ones of the formats the interface lists
DeclaredSupported ==
  SUPPORTED_FILE_TYPES \cup UNION {fileProcessors[p] : p \in DOMAIN fileProcessors}

\* C9: every media type declared as supported, and every media type the form
\* advertises, is accepted by the server's upload filter and is mapped by
\* the router to exactly one extractor.
C9_SupportedFormats ==
  (/\ req.method = "POST"
   /\ Len(req.parts) = 1
   /\ req.parts[1].name = "file"
   /\ req.parts[1].mimetype \in DeclaredSupported
   /\ req.parts[1].size <= maxFileSize(variant)
   /\ pc \in {"nonempty", "schema", "prompt", "model", "reconcile", "respond",
              "catch", "finally", "done"}) =>
    /\ files = <<1>>
    /\ Extractor(variant, req.parts[1].mimetype) # "none"
    /\ (variant = "part_002" => Cardinality(Processors(req.parts[1].mimetype)) = 1)
    /\ extractorRan = {Extractor(variant, req.parts[1].mimetype)}

\* the tokens of a heading string: split on ',', trimmed, empty ones dropped
RECURSIVE DropEmpty(_)
DropEmpty(l) ==
  IF l = <<>> THEN <<>>
  ELSE (IF Head(l) = <<>> THEN <<>> ELSE <<Head(l)>>) \o DropEmpty(Tail(l))

Tokens(h) == DropEmpty(mapTrim(split(h)))

\* C10: in headings mode, when no token remains after splitting on ',',
\* trimming and dropping the empty tokens, the request fails with the
\* empty-heading-list error and the model is not called; no schema property
\* has the empty string as its name.
C10_HeadingTokenisation ==
  (fields.mode = "headings" /\ Began("schema")) =>
    /\ (Tokens(fields.headings) = <<>> =>
          /\ err.text = "Headings are required in headings mode"
          /\ chatCalls = 0)
    /\ \A i \in 1..Len(schema.props) : schema.props[i].key # <<>>

\* the property names of the schema in the order the handler enumerates them
SchemaKeys == KeysOf(entries(schema))

\* C11: for every heading string with at least one non-empty token after
\* trimming, the built schema has type "object", its properties keys are
\* exactly the trimmed tokens in the order given (a repeated token counted
\* once), every property is typed string, and required lists the same tokens
\* in the same order.
C11_HeadingSchema ==
  (fields.mode = "headings" /\ Began("schema") /\ Tokens(fields.headings) # <<>>) =>
    /\ schema.top = "object"
    /\ schema.type = "object"
    /\ schema.pk = "mapping"
    /\ SchemaKeys = Dedupe(Tokens(fields.headings), {})
    /\ \A i \in 1..Len(schema.props) : schema.props[i].d = Desc("string", "")
    /\ schema.required = Tokens(fields.headings)

\* the candidate schema parsed from jsonStructure was handed to the validator
Validated ==
  /\ fields.mode = "json"
  /\ fields.jsonStructure.syntax = "ok"
  /\ Began("schema")

\* the validator accepted the candidate: the handler went on to the prompt
SchemaAccepted == pc = "prompt" \/ Began("prompt")

\* C12: the validator accepts a parsed candidate schema if and only if its
\* top-level type is "object" and every property value has a type among
\* string, number, boolean, array, object; a property whose type is missing
\* or outside these five is always rejected.  Stated for candidates whose
\* properties member is a mapping.
C12_ValidatorEquivalence ==
  (Validated /\ schema.pk = "mapping") =>
    (SchemaAccepted <=>
       /\ schema.top = "object"
       /\ schema.type = "object"
       /\ \A i \in 1..Len(schema.props) :
            ~schema.props[i].d.nul /\ schema.props[i].d.type \in FieldTypes)

\* C13: a candidate schema whose properties is absent, null or not a mapping
\* (an array, a string, a number) is rejected as an invalid schema, the
\* request fails, and neither the prompt synthesizer nor the model is
\* reached.
C13_ValidatorPropertiesRule ==
  (Validated /\ schema.pk # "mapping") =>
    /\ err.wrap = "Invalid JSON structure: "
    /\ ~Began("prompt")
    /\ chatCalls = 0
    /\ (Finished => Failed)

\* C14 as stated: whenever the text returned by the model does not parse as
\* JSON, an empty or absent reply included, the request ends in a failure
\* response and no data is returned.
C14_NoJsonNoData ==
  (Finished /\ reply.content \in {"notjson", "absent"}) => Failed

\* C14 as amended: whenever the model returns text that is not empty and
\* does not parse as JSON, the request ends in a failure response and no
\* data is returned (an empty or absent reply is parsed as {}).
C14_ModelReplyNotJson ==
  reply.content = "notjson" =>
    /\ pc \in {"reconcile", "catch", "finally", "done"}
    /\ ~Began("respond")
    /\ (Began("reconcile") => err.wrap = "Error processing model response: ")
    /\ (Finished => Failed /\ "data" \notin DOMAIN responses[1])

\* a finished request whose model reply was not JSON
C14_Witness ==
  /\ Finished
  /\ reply.content = "notjson"
  /\ Failed
  /\ steps = <<"parse", "nonempty", "schema", "prompt", "model", "reconcile">>

\* C15: in every success response data is a mapping from field names to
\* values; a reply that is valid JSON but not an object never leads to a
\* success response whose data is not a mapping.
C15_ResultIsMapping ==
  \A n \in 1..Len(responses) :
    responses[n].success => responses[n].data.kind = "object"

\* C16: whenever the resolved document text (the pasted text, or the
\* extractor's output when a file is uploaded) is empty or absent, the
\* request fails with the document-content error before any schema is built
\* and before the model is called.
C16_EmptyDocument ==
  (Began("nonempty") /\ documentText = "") =>
    /\ err = Msg("Document content is required")
    /\ steps[Len(steps)] = "nonempty"
    /\ schema = NoSchema
    /\ fields = NoFields
    /\ chatCalls = 0
    /\ (Finished => Failed /\ responses[1].error = Msg("Document content is required"))

\* a finished request whose uploaded file gave no text, and one without
\* upload and without text
C16_Witness ==
  /\ Finished
  /\ Failed
  /\ documentText = ""
  /\ Began("nonempty")
  /\ (Began("extract") \/ req.parts = <<>>)

\* C17: when an image is uploaded and optical character recognition
\* returns empty text, the extraction is not an error and the request is not
\* failed because of the empty text.
C17_EmptyOcrText ==
  (/\ uploadedFilePath # 0
   /\ "image" \in extractorRan
   /\ extracted = "empty") =>
    /\ err.text # "extractor failed"
    /\ err # Msg("Document content is required")
    /\ (Finished => \A n \in 1..Len(responses) :
                      ~responses[n].success =>
                        responses[n].error # Msg("Document content is required"))

\* C18: in json mode, for every jsonStructure that is not syntactically
\* valid JSON, the request fails without calling the model and the failure
\* message carries the position of the syntax error and its line, the line
\* being 1 + the number of newlines before the parser's offset.
C18_MalformedJsonSchema ==
  (/\ fields.mode = "json"
   /\ fields.jsonStructure.syntax = "invalid"
   /\ Began("schema")) =>
    /\ chatCalls = 0
    /\ ~Began("prompt")
    /\ err.wrap = "Invalid JSON structure: "
    /\ err.at = <<fields.jsonStructure.offset, fields.jsonStructure.newlines + 1>>
    /\ (Finished => Failed /\ responses[1].error = err)

\* the uploads formidable's filter lets through
Uploads == {req.parts[i] : i \in Range(Accepted(variant, req.parts, 1))}

\* C19: an uploaded file larger than the ceiling is rejected with a failure
\* response before any extractor runs, and the form and the server enforce
\* the same ceiling: a file the form accepts as small enough is not rejected
\* by the server for its size.
C19_UploadCeiling ==
  Began("parse") =>
    /\ (\E u \in Uploads : u.size > maxFileSize(variant)) =>
          /\ err = Msg("options.maxFileSize exceeded")
          /\ extractorRan = {}
          /\ chatCalls = 0
          /\ (Finished => Failed)
    /\ (\A u \in Uploads : formAccepts(u.size)) =>
          err # Msg("options.maxFileSize exceeded")

\* C20: the model is called at most once per request; when the model call
\* fails, the call is not repeated and the request ends in exactly one
\* failure response, which carries the call's error.
C20_NoRetry ==
  /\ chatCalls <= 1
  /\ Len(responses) <= 1
  /\ (chatCalls = 1 /\ reply = NoReply) =>
        /\ err = Msg("fetch failed")
        /\ pc \in {"catch", "finally", "done"}
        /\ ~Began("reconcile")
        /\ ~Began("respond")
        /\ (Finished => Failed /\ responses[1].error = Msg("fetch failed"))

\* a finished request whose one model call was rejected
C20_Witness ==
  /\ Finished
  /\ chatCalls = 1
  /\ err = Msg("fetch failed")
  /\ Failed

\* the instruction lines of the specification: one per property, in the
\* order the properties were inserted
RECURSIVE SpecInstructions(_)
SpecInstructions(ps) ==
  IF ps = <<>> THEN <<>>
  ELSE LET d == Head(ps).d
       IN  <<Line(Head(ps).key, d.type,
                  IF d.description # "" THEN Given(d.description)
                                        ELSE Generic(d.type, FALSE))>>
             \o SpecInstructions(Tail(ps))

\* C23: the prompt is a function of schema and text; it holds exactly one
\* instruction line per schema property, in property-insertion order, of the
\* form "- <name> (<type>): <description>", with the property's description
\* when it has one and "Extract the most relevant <type> value" otherwise.
C23_PromptRendering ==
  prompt # NoPrompt =>
    /\ prompt.instructions = SpecInstructions(schema.props)
    /\ prompt.schema = schema
    /\ prompt.text = documentText

C25_ObjectTypedValues ==
  \A n \in 1..Len(responses) :
    (responses[n].success /\ schema.pk = "mapping") =>
      \A i \in 1..Len(schema.props) :
        (~schema.props[i].d.nul /\ schema.props[i].d.type = "object") =>
          /\ schema.props[i].key \in DOMAIN responses[n].data.f
          /\ responses[n].data.f[schema.props[i].key].k = "object"

\* C30: a request whose method is not POST receives the "Method not
\* allowed" failure response and has no other effect: the only step taken
\* for it is the method check, which leaves the temporary directory, the
\* stored uploads, the extractors, the model and the cleanup untouched.
C30_NonPostRequests ==
  [][req.method # "POST" =>
       /\ pc = "start"
       /\ pc' = "done"
       /\ responses' = <<Failure(405, Msg("Method not allowed"))>>
       /\ UNCHANGED <<tmpDir, tmpFiles, files, uploadedFilePath, fields, documentText,
                      schema, prompt, reply, parsedContent, err, steps, extractorRan,
                      extracted, chatCalls>>]_vars

\* a finished request that was not a POST and carried an upload
C30_Witness ==
  /\ Finished
  /\ req.method # "POST"
  /\ req.parts # <<>>
  /\ responses = <<Failure(405, Msg("Method not allowed"))>>
  /\ ~tmpDir

\* C26: every OCR worker the image extractor creates is terminated before
\* the extractor returns or fails, on every exit path, also when recognition
\* throws.
C26_OcrWorkerRelease ==
  (Began("extract") /\ pc # "extract") => workers = 0

\* C22: after any sequence of file-selection and text-edit events the form
\* never holds both a selected file and non-empty pasted text; each request
\* it submits carries exactly one of the file and the text field; and on the
\* server the text extracted from an uploaded file replaces the text field
\* as the document text.
C22_SingleSource ==
  /\ ~(form.file # NoFile /\ form.document # "")
  /\ form.inFlight > 0 =>
       /\ (form.formData.file # NoFile) # (form.formData.text # <<>>)
       /\ req = fetch(form.formData)
       /\ Len(req.parts) = 1 => req.text = ""
  /\ (uploadedFilePath # 0 /\ extracted \in {"text", "empty"}) =>
       documentText = IF extracted = "text" THEN "F" ELSE ""

\* the server has extracted the text of a file the form submitted after the
\* user had pasted text and then picked the file
C22_Witness ==
  /\ form.inFlight > 0
  /\ form.formData.file # NoFile
  /\ form.submits = MaxSubmits
  /\ extracted = "text"
  /\ documentText = "F"
  /\ pc = "nonempty"

\* the step in which the form takes the server's response to its request
ResponseTaken == form.inFlight > 0 /\ form'.inFlight = 0 /\ pc = "done"

\* C27: whenever the server answers a submitted request with a failure
\* response, the error text the form shows once the submit has completed is
\* the server's error message, not the "Something went wrong" fallback.
C27_ServerErrorReachesUser ==
  [][(ResponseTaken /\ Failed) =>
        /\ form'.error = responses[1].error
        /\ form'.error # Msg("Something went wrong")]_vars

\* C28: every JSON structure for which the form reports jsonValid and
\* allows the submit in json mode is accepted by the server's schema
\* validator: a request the form has submitted is never rejected by the
\* server as an invalid JSON structure.
C28_SchemaValidityAgreement ==
  (form.inFlight > 0 /\ fields.mode = "json") =>
    /\ validateJsonStructure(form.variant, fields.jsonStructure)
    /\ validateSchema(variant, fields.jsonStructure.value).ok
    /\ err.wrap # "Invalid JSON structure: "


\* a submit completes: the request in flight is answered or fetch rejects
SubmitCompletes == form.inFlight > 0 /\ form'.inFlight = 0

\* C29: the form has at most one request in flight, loading is true exactly
\* while a request is in flight, and when a submit completes loading is
\* false and exactly one of output (non-null) and error (non-empty) is set.
C29_SubmitLifecycle ==
  [][/\ form'.inFlight <= 1
     /\ form'.loading <=> form'.inFlight = 1
     /\ SubmitCompletes =>
          /\ ~form'.loading
          /\ (form'.output # <<>>) # (form'.error # NoError)]_vars


\* a step of the other request
OtherStep == other' # other

\* this request keeps its upload from form.parse until its own cleanup
OwnUploadKept ==
  (pc \notin {"start", "mkdir", "mkdirp", "parse", "done"} /\ files # <<>>)
    => Range(files) \subseteq tmpFiles

\* C21: in every interleaving of two requests, no step of one changes what
\* the other computes or answers; a request's cleanup removes only its own
\* temporary file; creating ./tmp at the same time fails neither request.
C21_RequestIndependence ==
  [][/\ OtherStep => /\ UNCHANGED locals
                     /\ tmpFiles' \ {otherFilepath} = tmpFiles \ {otherFilepath}
     /\ ~OtherStep => (otherFilepath \in tmpFiles' <=> otherFilepath \in tmpFiles)
     /\ OwnUploadKept'
     /\ (other'.pc = "finally" /\ other'.upload) => otherFilepath \in tmpFiles'
     /\ err' # EEXIST
     /\ other'.err = ""
     /\ (Began("parse")' \/ other'.pc \in {"parse", "finally", "done"}) => tmpDir']_vars

\* this request has answered 200 and removed its upload while the other
\* request, which passed the existence check together with it, still holds
\* its own upload
C21_Witness ==
  /\ pc = "done"
  /\ uploadedFilePath # 0
  /\ uploadedFilePath \notin tmpFiles
  /\ Began("parse")
  /\ Len(responses) = 1
  /\ responses[1].status = 200
  /\ other.pc = "finally"
  /\ other.upload
  /\ otherFilepath \in tmpFiles

====
